---- MODULE Spec2Model ----
(***************************************************************************)
(* The fan transport of the holographic avatar system: the upload client   *)
(* of integrations/led_hologram/fan_protocol.py (FanProtocol), the upload  *)
(* client and the HTTP endpoints of services/fan-driver/main.py            *)
(* (TCPFanClient, upload_to_device), the control commands of both, the     *)
(* probe FanProtocol.is_online, and the streamer WebcamToFan of            *)
(* scripts/webcam_to_fan.py; the PolarEncoder of                           *)
(* services/polar-encoder/main.py; and the session handlers of the         *)
(* orchestrator (routers/sessions.py, videocall.py, receptionist.py).      *)
(*                                                                         *)
(* Bytes are integers 0..255, byte strings are sequences of bytes, Python  *)
(* str values are sequences of code points.  Times are milliseconds.       *)
(* A coroutine is cut into steps at its await points: one step runs from   *)
(* one suspension to the next.  The log of a call records the argument of  *)
(* every socket.send call that returned without raising.                   *)
(***************************************************************************)
EXTENDS Integers, Sequences, FiniteSets, TLC

\* ------------------------------------------------------------------ bounds
\* Calls the sequential client makes in one run.
MaxCalls == 2
\* HTTP requests the fan-driver receives in one run.
MaxRequests == 2
\* The payloads span 0..MaxChunks full DATA bodies (plus one byte).
MaxChunks == 1
\* The rays of one streamed frame.
MaxRays == 5
\* Frames the camera delivers in one run.
MaxFrames == 4
\* Frames of one animation.
MaxAnimationFrames == 2
\* Bits of one call of _pack_bits.
MaxBits == 9
\* Requests the orchestrator receives in one run.
MaxOrchRequests == 3

\* ----------------------------------------------------------------- helpers
Min(a, b) == IF a < b THEN a ELSE b

\* s[:n]
Take(s, n) == SubSeq(s, 1, Min(n, Len(s)))

\* s[a:b] for 0 <= a
Slice(s, a, b) == SubSeq(s, a + 1, Min(b, Len(s)))

\* b'\x00' * n
Zeros(n) == [i \in 1..n |-> 0]

RECURSIVE Concat(_)
Concat(ss) == IF ss = <<>> THEN <<>> ELSE Head(ss) \o Concat(Tail(ss))

\* str.endswith
EndsWith(s, suffix) ==
    /\ Len(s) >= Len(suffix)
    /\ SubSeq(s, Len(s) - Len(suffix) + 1, Len(s)) = suffix

\* One code point as UTF-8 (code points below 0x800).
Utf8(c) == IF c < 128 THEN <<c>> ELSE <<192 + (c \div 64), 128 + (c % 64)>>

\* str.encode(): UTF-8
Encode(s) == Concat([i \in 1..Len(s) |-> Utf8(s[i])])

\* struct.pack(">I", n), n < 2^32
PackBE32(n) ==
    <<(n \div 16777216) % 256, (n \div 65536) % 256, (n \div 256) % 256, n % 256>>

\* The receiver's reading of a 4-byte big-endian length.
UnpackBE32(b) == ((b[1] * 256 + b[2]) * 256 + b[3]) * 256 + b[4]

\* The str '.bin'
DotBin == <<46, 98, 105, 110>>

\* ------------------------------------------------- FanProtocol's constants
FP_PACKET_SIZE == 1460
\* PACKET_DELAY = 0.03 s
FP_PACKET_DELAY == 30
HEADER == <<211, 224, 201, 186, 2, 1, 77, 216>>
TYPE_NAME == <<48, 65, 103, 81>>
TYPE_DATA == <<49, 71, 110, 72>>
TYPE_END == <<49, 65, 102, 70>>
TRAILER == <<191, 181, 210, 162>>

\* ------------------------------------------------------------------ sockets
\* A field that holds None or a socket object.  For a socket: whether its
\* connect succeeded, the NAME packets sent on it, whether anything was
\* sent on it, and the time the sender has slept since the last send on it.
None ==
    [isNone |-> TRUE, connected |-> FALSE, names |-> 0, used |-> FALSE,
     sinceSend |-> 0]

\* socket.socket(...); settimeout; connect((ip, port)) succeeded or raised
NewSocket(ok) ==
    [isNone |-> FALSE, connected |-> ok, names |-> 0, used |-> FALSE,
     sinceSend |-> 0]

\* sock.send(pkt) that returned: the time slept since the last send restarts.
AfterSend(sock, isName) ==
    [sock EXCEPT !.used = TRUE, !.sinceSend = 0,
                 !.names = @ + (IF isName THEN 1 ELSE 0)]

\* await asyncio.sleep(ms / 1000)
AfterSleep(sock, ms) == [sock EXCEPT !.sinceSend = @ + ms]

\* One entry of a call's log: the packet handed to send, whether it is the
\* first send on its socket, the time slept on the socket since the send
\* before it, and the value of `offset` at the send.
Sent(pkt, sock, off) ==
    [pkt |-> pkt, first |-> ~sock.used, gap |-> sock.sinceSend, off |-> off]

\* ------------------------------------------------------------- call frames
\* The frame of the call in progress (or of the last call, once done).
Idle ==
    [fn |-> "none", pc |-> "done", filename |-> <<>>, filename_bytes |-> <<>>,
     data |-> <<>>, delay |-> 0, offset |-> 0, packet_count |-> 0,
     sent |-> <<>>, raises |-> 0, connected_here |-> FALSE,
     result |-> "None"]

\* ------------------------------------------------ FanProtocol.connect_upload
\* self._upload_socket after connect_upload: the socket object is stored
\* before connect is tried, so it stays stored when connect raises.
connect_upload(ok) == NewSocket(ok)

\* FanProtocol.disconnect_upload
disconnect_upload(sock) == None

\* --------------------------------------------------- FanProtocol.upload_bin
\* lines 82-85
upload_bin_filename_bytes(filename) ==
    Take(Encode(IF EndsWith(filename, DotBin) THEN filename
                ELSE filename \o DotBin), 99)

\* name_packet with the length packed little-endian ("<I")
name_packet_little_endian(file_size, filename_bytes) ==
    HEADER \o TYPE_NAME
        \o <<file_size % 256, (file_size \div 256) % 256,
             (file_size \div 65536) % 256, (file_size \div 16777216) % 256>>
        \o filename_bytes \o TRAILER

\* lines 89-95
name_packet(file_size, filename_bytes) ==
    HEADER \o TYPE_NAME \o PackBE32(file_size) \o filename_bytes \o TRAILER

\* line 101
payload_size == FP_PACKET_SIZE - Len(HEADER) - Len(TYPE_DATA) - Len(TRAILER)

\* upload_bin_chunk with the slice's end not moved by the offset:
\* data[offset:payload_size]
upload_bin_chunk_fixed_end(data, offset) == Slice(data, offset, payload_size)

\* line 107
upload_bin_chunk(data, offset) == Slice(data, offset, offset + payload_size)

\* upload_bin_pad without the padding
upload_bin_pad_none(chunk) == chunk

\* lines 110-111
upload_bin_pad(chunk) ==
    IF Len(chunk) < payload_size
    THEN chunk \o Zeros(payload_size - Len(chunk))
    ELSE chunk

\* line 113
data_packet(chunk) == HEADER \o TYPE_DATA \o chunk \o TRAILER

\* line 124
end_packet == HEADER \o TYPE_END \o TRAILER

\* upload_bin_except that logs the error and lets the upload go on
upload_bin_except_continue(f) == [f EXCEPT !.raises = @ + 1]

\* lines 130-132: except Exception: log, return False
upload_bin_except(f) == [f EXCEPT !.raises = @ + 1, !.result = "False", !.pc = "done"]

\* lines 97-98: send NAME, then suspend in the sleep
upload_bin_send_name(sock, f, err) ==
    IF err \/ ~sock.connected
    THEN [sock |-> sock, frame |-> upload_bin_except(f)]
    ELSE LET pkt == name_packet(Len(f.data), f.filename_bytes)
         IN [sock |-> AfterSleep(AfterSend(sock, TRUE), FP_PACKET_DELAY),
             frame |-> [f EXCEPT !.sent = Append(@, Sent(pkt, sock, f.offset)),
                                 !.pc = "after_name"]]

\* lines 106-128 from the loop test on: one DATA packet and its sleep, or
\* the END packet and the return
upload_bin_loop(sock, f, err) ==
    IF f.offset < Len(f.data)
    THEN IF err \/ ~sock.connected
         THEN [sock |-> sock, frame |-> upload_bin_except(f)]
         ELSE LET pkt == data_packet(upload_bin_pad(upload_bin_chunk(f.data, f.offset)))
              IN [sock |-> AfterSleep(AfterSend(sock, FALSE), FP_PACKET_DELAY),
                  frame |-> [f EXCEPT !.sent = Append(@, Sent(pkt, sock, f.offset)),
                                      !.pc = "after_data"]]
    ELSE IF err \/ ~sock.connected
         THEN [sock |-> sock, frame |-> upload_bin_except(f)]
         ELSE [sock |-> AfterSend(sock, FALSE),
               frame |-> [f EXCEPT !.sent = Append(@, Sent(end_packet, sock, f.offset)),
                                   !.result = "True", !.pc = "done"]]

\* lines 76-98: the call up to its first suspension.  connOk: whether a
\* connect, if one is made, succeeds; err: whether the send of NAME raises.
upload_bin_begin(sock, filename, data, connOk, err) ==
    LET f0 == [Idle EXCEPT !.fn = "upload_bin", !.pc = "begin",
                           !.filename = filename, !.data = data,
                           !.delay = FP_PACKET_DELAY]
    IN IF sock.isNone /\ ~connOk
       THEN [sock |-> connect_upload(FALSE),
             frame |-> [f0 EXCEPT !.result = "False", !.pc = "done"]]
       ELSE LET s1 == IF sock.isNone THEN connect_upload(TRUE) ELSE sock
                f1 == [f0 EXCEPT !.connected_here = sock.isNone,
                                 !.filename_bytes = upload_bin_filename_bytes(filename)]
            IN upload_bin_send_name(s1, f1, err)

\* lines 103-104 after the sleep that follows NAME, lines 117-118 after the
\* sleep that follows a DATA packet; then the loop.
upload_bin_resume(sock, f, err) ==
    IF f.pc = "after_name"
    THEN upload_bin_loop(sock, [f EXCEPT !.offset = 0, !.packet_count = 0], err)
    ELSE upload_bin_loop(sock, [f EXCEPT !.offset = @ + payload_size,
                                         !.packet_count = @ + 1], err)

\* ---------------------------------------------------- fan-driver constants
PACKET_SIZE == 1460
PACKET_HEADER == <<211, 224, 201, 186, 2, 1, 77, 216>>
PACKET_TYPE_NAME == <<48, 65, 103, 81>>
PACKET_TYPE_DATA == <<49, 71, 110, 72>>
PACKET_TYPE_END == <<49, 65, 102, 70>>
PACKET_TRAILER == <<191, 181, 210, 162>>
\* upload_file's default delay, 0.03 s
DEFAULT_DELAY == 30
\* The delays a caller passes to upload_file: the default, and one below
\* the 0.03 s its docstring names as the minimum.
Delays == {10, DEFAULT_DELAY}

\* ------------------------------------------------------ TCPFanClient.connect
\* self.socket after connect: stored before connect is tried.
connect(ok) == NewSocket(ok)

\* TCPFanClient.disconnect
disconnect(sock) == None

\* -------------------------------------------------- TCPFanClient.upload_file
\* line 102
upload_file_filename_bytes(filename) == Take(Encode(filename), 99)

\* lines 106-112
upload_file_name_packet(file_size, filename_bytes) ==
    PACKET_HEADER \o PACKET_TYPE_NAME \o PackBE32(file_size)
        \o filename_bytes \o PACKET_TRAILER

\* line 118
data_payload_size ==
    PACKET_SIZE - Len(PACKET_HEADER) - Len(PACKET_TYPE_DATA) - Len(PACKET_TRAILER)

\* line 122
upload_file_chunk(data, offset) == Slice(data, offset, offset + data_payload_size)

\* lines 125-126
upload_file_pad(chunk) ==
    IF Len(chunk) < data_payload_size
    THEN chunk \o Zeros(data_payload_size - Len(chunk))
    ELSE chunk

\* line 128
upload_file_data_packet(chunk) ==
    PACKET_HEADER \o PACKET_TYPE_DATA \o chunk \o PACKET_TRAILER

\* line 135
upload_file_end_packet == PACKET_HEADER \o PACKET_TYPE_END \o PACKET_TRAILER

\* lines 141-143: except Exception: log, return False
upload_file_except(f) == [f EXCEPT !.raises = @ + 1, !.result = "False", !.pc = "done"]

\* lines 114-115: send NAME, then suspend in the sleep
upload_file_send_name(sock, f, err) ==
    IF err \/ ~sock.connected
    THEN [sock |-> sock, frame |-> upload_file_except(f)]
    ELSE LET pkt == upload_file_name_packet(Len(f.data), f.filename_bytes)
         IN [sock |-> AfterSleep(AfterSend(sock, TRUE), f.delay),
             frame |-> [f EXCEPT !.sent = Append(@, Sent(pkt, sock, f.offset)),
                                 !.pc = "after_name"]]

\* lines 121-139 from the loop test on
upload_file_loop(sock, f, err) ==
    IF f.offset < Len(f.data)
    THEN IF err \/ ~sock.connected
         THEN [sock |-> sock, frame |-> upload_file_except(f)]
         ELSE LET pkt == upload_file_data_packet(
                             upload_file_pad(upload_file_chunk(f.data, f.offset)))
              IN [sock |-> AfterSleep(AfterSend(sock, FALSE), f.delay),
                  frame |-> [f EXCEPT !.sent = Append(@, Sent(pkt, sock, f.offset)),
                                      !.pc = "after_data"]]
    ELSE IF err \/ ~sock.connected
         THEN [sock |-> sock, frame |-> upload_file_except(f)]
         ELSE [sock |-> AfterSend(sock, FALSE),
               frame |-> [f EXCEPT !.sent = Append(@, Sent(upload_file_end_packet,
                                                         sock, f.offset)),
                                   !.result = "True", !.pc = "done"]]

\* lines 96-115: the call up to its first suspension
upload_file_begin(sock, filename, data, delay, connOk, err) ==
    LET f0 == [Idle EXCEPT !.fn = "upload_file", !.pc = "begin",
                           !.filename = filename, !.data = data,
                           !.delay = delay]
    IN IF sock.isNone /\ ~connOk
       THEN [sock |-> connect(FALSE),
             frame |-> [f0 EXCEPT !.result = "False", !.pc = "done"]]
       ELSE LET s1 == IF sock.isNone THEN connect(TRUE) ELSE sock
                f1 == [f0 EXCEPT !.connected_here = sock.isNone,
                                 !.filename_bytes = upload_file_filename_bytes(filename)]
            IN upload_file_send_name(s1, f1, err)

\* line 120 after the sleep that follows NAME, line 132 after the sleep that
\* follows a DATA packet; then the loop.
upload_file_resume(sock, f, err) ==
    IF f.pc = "after_name"
    THEN upload_file_loop(sock, [f EXCEPT !.offset = 0], err)
    ELSE upload_file_loop(sock, [f EXCEPT !.offset = @ + data_payload_size], err)


\* ---------------------------------------------------------- control port
\* CONTROL_HEADER, the same bytes in fan_protocol.py and fan-driver/main.py
CONTROL_HEADER == <<192, 238, 183, 201, 186, 163, 2, 0, 0, 0, 0, 20, 204>>
\* b"lfhbfb5d2a2"
SuffixLfh == <<108, 102, 104, 98, 102, 98, 53, 100, 50, 97, 50>>
\* b"lfj00bfb5d2a2"
SuffixLfj == <<108, 102, 106, 48, 48, 98, 102, 98, 53, 100, 50, 97, 50>>

\* What sock.recv(1024) returns: some bytes, or b'' from a closed peer.
Responses == {<<1, 2>>, <<>>}

\* The record of one control call: the socket it opened (opened, connected,
\* closed), the packets it sent, the outcome of each recv call it made, the
\* return statement it left by (returned) and what it returned.
NoResponse == <<"None">>
ControlIdle ==
    [fn |-> "none", command |-> "", opened |-> FALSE, connected |-> FALSE,
     closed |-> FALSE, sent |-> <<>>, recvs |-> <<>>, returned |-> "none",
     result |-> FALSE, response |-> NoResponse]

\* The outcomes of the socket calls of one control call: socket.socket()
\* (mk), connect, send, recv ("bytes", "timeout" for socket.timeout, "error"
\* for any other exception) with the bytes received, and whether a socket
\* object dropped without close() has been finalized by the time the call
\* returns (the language leaves that to the collector).
ControlEnvs ==
    [mk : BOOLEAN, connect : BOOLEAN, send : BOOLEAN,
     recv : {"bytes", "timeout", "error"}, bytes : Responses,
     finalized : BOOLEAN]

\* The dict with one more key, "stop".
send_control_commands_with_stop ==
    [c \in {"pause", "play", "status", "delete", "stop"} |->
        CASE c = "pause" -> <<51, 52>>
          [] c = "play" -> <<51, 53>>
          [] c = "status" -> <<51, 56>>
          [] c = "delete" -> <<51, 57>>
          [] c = "stop" -> <<51, 54>>]

\* FanProtocol.send_control: lines 147-152
send_control_commands ==
    [c \in {"pause", "play", "status", "delete"} |->
        CASE c = "pause" -> <<51, 52>>
          [] c = "play" -> <<51, 53>>
          [] c = "status" -> <<51, 56>>
          [] c = "delete" -> <<51, 57>>]

\* lines 164-167
send_control_packet(command) ==
    IF command = "delete"
    THEN CONTROL_HEADER \o send_control_commands[command] \o SuffixLfj
    ELSE CONTROL_HEADER \o send_control_commands[command] \o SuffixLfh

\* lines 183-185: except Exception: log, return (False, None); the socket,
\* if one was made, is not closed here.
send_control_except(c, env) ==
    [c EXCEPT !.returned = "except", !.result = FALSE,
              !.response = NoResponse, !.closed = c.opened /\ env.finalized]

\* The recv with socket.timeout handled like any other exception.
send_control_recv_timeout_raises(c, env) ==
    LET c4 == [c EXCEPT !.recvs = Append(@, env.recv)]
    IN IF env.recv = "bytes"
       THEN [c4 EXCEPT !.response = env.bytes, !.closed = TRUE,
                       !.returned = "success", !.result = TRUE]
       ELSE send_control_except(c4, env)

\* lines 172-181, status: sock.recv(1024) inside try / except
\* socket.timeout: pass; then close and return (True, response).
send_control_recv(c, env) ==
    LET c4 == [c EXCEPT !.recvs = Append(@, env.recv)]
    IN CASE env.recv = "bytes" ->
              [c4 EXCEPT !.response = env.bytes, !.closed = TRUE,
                         !.returned = "success", !.result = TRUE]
         [] env.recv = "timeout" ->
              [c4 EXCEPT !.closed = TRUE, !.returned = "success",
                         !.result = TRUE]
         [] env.recv = "error" -> send_control_except(c4, env)

\* FanProtocol.send_control, lines 147-185 (it awaits nothing: one step)
send_control(command, env) ==
    LET c0 == [ControlIdle EXCEPT !.fn = "send_control", !.command = command]
    IN IF command \notin DOMAIN send_control_commands
       THEN [c0 EXCEPT !.returned = "unknown_command"]
       ELSE IF ~env.mk THEN send_control_except(c0, env)
       ELSE LET c1 == [c0 EXCEPT !.opened = TRUE]
            IN IF ~env.connect THEN send_control_except(c1, env)
       ELSE LET c2 == [c1 EXCEPT !.connected = TRUE]
            IN IF ~env.send THEN send_control_except(c2, env)
       ELSE LET c3 == [c2 EXCEPT !.sent = Append(@, send_control_packet(command))]
            IN IF command # "status"
               THEN [c3 EXCEPT !.closed = TRUE, !.returned = "success",
                               !.result = TRUE]
               ELSE send_control_recv(c3, env)

\* TCPFanClient.send_command: lines 151-155
send_command_commands ==
    [c \in {"pause", "play", "status"} |->
        CASE c = "pause" -> <<51, 52>>
          [] c = "play" -> <<51, 53>>
          [] c = "status" -> <<51, 56>>]

\* lines 166-170
send_command_packet(command) ==
    CONTROL_HEADER \o send_command_commands[command] \o SuffixLfh

\* lines 178-180: except Exception: log, return False
send_command_except(c, env) ==
    [c EXCEPT !.returned = "except", !.result = FALSE,
              !.closed = c.opened /\ env.finalized]

\* TCPFanClient.send_command, lines 151-180 (it awaits nothing: one step)
send_command(command, env) ==
    LET c0 == [ControlIdle EXCEPT !.fn = "send_command", !.command = command]
    IN IF command \notin DOMAIN send_command_commands
       THEN [c0 EXCEPT !.returned = "unknown_command"]
       ELSE IF ~env.mk THEN send_command_except(c0, env)
       ELSE LET c1 == [c0 EXCEPT !.opened = TRUE]
            IN IF ~env.connect THEN send_command_except(c1, env)
       ELSE LET c2 == [c1 EXCEPT !.connected = TRUE]
            IN IF ~env.send THEN send_command_except(c2, env)
       ELSE [c2 EXCEPT !.sent = Append(@, send_command_packet(command)),
                       !.closed = TRUE, !.returned = "success",
                       !.result = TRUE]

\* FanProtocol.is_online. What the connect attempt of a probe does: it
\* succeeds, is refused, times out, or socket.socket() or connect_ex raises
\* (connect_ex raises for errors other than the C-level connect's errno,
\* such as a host name that does not resolve).
ConnectOutcomes ==
    {"success", "refused", "timeout", "socket_raises", "connect_ex_raises"}
Raises(outcome) == outcome \in {"socket_raises", "connect_ex_raises"}

\* line 215, sock.connect_ex: 0 on success, else the errno (ECONNREFUSED,
\* EAGAIN of a socket with a timeout).
connect_ex(outcome) ==
    CASE outcome = "success" -> 0
      [] outcome = "refused" -> 111
      [] outcome = "timeout" -> 11

\* The record of one probe: the outcome of its connect attempt, whether it
\* closed its socket, and how it ended.
ProbeIdle ==
    [fn |-> "none", outcome |-> "", closed |-> FALSE, returned |-> "None"]

\* is_online without the try: the exception leaves the call.
is_online_no_except(outcome) ==
    IF Raises(outcome)
    THEN [fn |-> "is_online", outcome |-> outcome, closed |-> FALSE,
          returned |-> "raised"]
    ELSE [fn |-> "is_online", outcome |-> outcome, closed |-> TRUE,
          returned |-> IF connect_ex(outcome) = 0 THEN "True" ELSE "False"]

\* FanProtocol.is_online, lines 210-219 (it awaits nothing: one step)
is_online(outcome) ==
    IF Raises(outcome)
    THEN [fn |-> "is_online", outcome |-> outcome, closed |-> FALSE,
          returned |-> "False"]
    ELSE [fn |-> "is_online", outcome |-> outcome, closed |-> TRUE,
          returned |-> IF connect_ex(outcome) = 0 THEN "True" ELSE "False"]

\* -------------------------------------------------- scripts/webcam_to_fan.py
\* The streamer WebcamToFan.  NUM_RAYS is 2700 in the source (line 21); the
\* frames of the model have MaxRays rays of NUM_LEDS bytes.
W_PACKET_HEADER == <<211, 224, 201, 186, 2, 1, 77, 216>>
W_PACKET_TYPE_DATA == <<49, 71, 110, 72>>
W_PACKET_TRAILER == <<191, 181, 210, 162>>
NUM_LEDS == 224
\* DELAY_BETWEEN_PACKETS = 0.03 s
DELAY_BETWEEN_PACKETS == 30
\* send_frame_to_fan, line 192
chunk_size == 1024
\* run, line 275: time.sleep(0.1)
LoopSleep == 100

\* struct.pack('>H', n)
pack_H_big_endian(n) == <<(n \div 256) % 256, n % 256>>

\* struct.pack('<H', n), for 0 <= n <= 65535
pack_H(n) == <<n % 256, (n \div 256) % 256>>

\* What process_frame returns is drawn from discs of one colour, given by
\* the colour (b, g, r) of their pixels.
ProcessedFrames == {<<0, 0, 0>>, <<40, 200, 129>>}

\* convert_to_polar, lines 162-172: one LED from the pixel's b, g, r
led_bits(pixel) ==
    LET bit(v) == IF v > 128 THEN 1 ELSE 0
    IN 4 * bit(pixel[3]) + 2 * bit(pixel[2]) + bit(pixel[1])

\* convert_to_polar, lines 146-178, with _pack_ray (one byte per LED): the
\* rays one after the other.  Every sample of a disc lies inside the disc.
convert_to_polar(processed) ==
    [k \in 1..(MaxRays * NUM_LEDS) |-> led_bits(processed)]

\* send_frame_to_fan, line 193
total_chunks(polar_data) == (Len(polar_data) + chunk_size - 1) \div chunk_size

\* line 196
stream_chunk(polar_data, i) ==
    Slice(polar_data, i * chunk_size, (i + 1) * chunk_size)

\* lines 199-206
stream_packet(polar_data, i) ==
    LET chunk == stream_chunk(polar_data, i)
    IN W_PACKET_HEADER \o W_PACKET_TYPE_DATA \o pack_H(i)
           \o pack_H(Len(chunk)) \o chunk \o W_PACKET_TRAILER

\* The WebcamToFan instance and the frame of its run(): cap ("None", or a
\* VideoCapture that is "unopened", "open" or "released"), socket and
\* whether close() was called on it, running, the locals of run and of
\* send_frame_to_fan, where run is (pc) and what ended it.  reads counts the
\* frames cap.read() has returned.  The log records, in order, every frame
\* cap.read() returned ("read"), every packet whose send returned ("send")
\* and how the work on each frame ended ("done": what send_frame_to_fan
\* returned, "skipped" when it was not called, "raised" when a stage raised).
StreamInit ==
    [pc |-> "init", ended |-> "none", running |-> FALSE, cap |-> "None",
     socket |-> None, socket_closed |-> FALSE, show_preview |-> TRUE,
     frame_count |-> 0, polar_data |-> <<>>, i |-> 0, reads |-> 0,
     log |-> <<>>]

\* connect_camera, lines 44-57, as run sees it
CameraOutcomes == {"opened", "not_opened"}
\* connect_fan, lines 59-69: socket.socket() raises, connect raises, or
\* the connection is made
FanOutcomes == {"connected", "connect_raises", "socket_raises"}
\* cap.read() returns no frame, or a frame; a stage (process_frame,
\* convert_to_polar) raises on it or not
ReadOutcomes == {"no_frame", "stage_raises", "frame"}
\* cv2.waitKey(1) & 0xFF
Keys == {"none", "q", "b"}

\* connect_fan, lines 61-69: the socket is stored before connect is called
connect_fan(outcome) ==
    IF outcome = "socket_raises" THEN None
    ELSE NewSocket(outcome = "connected")

\* cleanup, lines 282-290
cleanup(st) ==
    [st EXCEPT !.running = FALSE,
               !.cap = IF @ = "None" THEN @ ELSE "released",
               !.socket_closed = @ \/ ~st.socket.isNone]

\* run leaves the try block: finally: self.cleanup() (lines 277-280)
run_finally(st, why) == [cleanup(st) EXCEPT !.pc = "closed", !.ended = why]

\* run, lines 218-231: up to the first test of `while self.running`
run_begin(st, show_preview, camera, fan) ==
    IF camera = "not_opened"
    THEN [st EXCEPT !.pc = "returned", !.cap = "unopened",
                    !.show_preview = show_preview]
    ELSE [st EXCEPT !.pc = "loop", !.cap = "open", !.running = TRUE,
                    !.socket = connect_fan(fan),
                    !.show_preview = show_preview]

\* The work on the frame in hand is over.
frame_done(st, how) ==
    [st EXCEPT !.pc = "after_send",
               !.log = Append(@, [e |-> "done", frame |-> st.reads,
                                  ok |-> how])]

\* run, lines 232-246: cap.read(), process_frame, convert_to_polar, and
\* send_frame_to_fan up to its first send
run_read(st, outcome, processed) ==
    IF outcome = "no_frame" THEN run_finally(st, "read_failed")
    ELSE LET n == st.reads + 1
             st1 == [st EXCEPT !.reads = n,
                               !.log = Append(@, [e |-> "read", frame |-> n])]
         IN IF outcome = "stage_raises"
            THEN run_finally(
                   [st1 EXCEPT !.log = Append(@, [e |-> "done", frame |-> n,
                                                  ok |-> "raised"])],
                   "exception")
            ELSE LET st2 == [st1 EXCEPT !.polar_data =
                                            convert_to_polar(processed),
                                        !.i = 0]
                 IN IF st2.socket.isNone
                    THEN frame_done(st2, "skipped")
                    ELSE [st2 EXCEPT !.pc = "send"]

\* send_frame_to_fan with `return True` inside the for loop.
send_frame_step_return_in_loop(st, sendOk) ==
    IF ~sendOk
    THEN frame_done(st, "False")
    ELSE LET pkt == stream_packet(st.polar_data, st.i)
             n == total_chunks(st.polar_data)
             entry == [e |-> "send", frame |-> st.reads, pkt |-> pkt,
                       first |-> ~st.socket.used,
                       gap |-> st.socket.sinceSend]
             st1 == [st EXCEPT
                       !.log = Append(@, entry),
                       !.socket = AfterSleep(AfterSend(@, FALSE),
                                             DELAY_BETWEEN_PACKETS \div n),
                       !.i = @ + 1]
         IN frame_done(st1, "True")

\* send_frame_to_fan, lines 195-214: one turn of the for loop, the send
\* and the sleep after it; a send that raises ends the call with False,
\* the last turn ends it with True.  30 / n ms is whole for the frames of
\* the model.
send_frame_step(st, sendOk) ==
    IF ~sendOk
    THEN frame_done(st, "False")
    ELSE LET pkt == stream_packet(st.polar_data, st.i)
             n == total_chunks(st.polar_data)
             entry == [e |-> "send", frame |-> st.reads, pkt |-> pkt,
                       first |-> ~st.socket.used,
                       gap |-> st.socket.sinceSend]
             st1 == [st EXCEPT
                       !.log = Append(@, entry),
                       !.socket = AfterSleep(AfterSend(@, FALSE),
                                             DELAY_BETWEEN_PACKETS \div n),
                       !.i = @ + 1]
         IN IF st1.i = n THEN frame_done(st1, "True") ELSE st1

\* run, lines 248-275: the rest of one turn of the while loop
run_after_send(st, key) ==
    LET st1 == [st EXCEPT !.frame_count = @ + 1]
    IN IF st1.show_preview /\ key = "q"
       THEN run_finally(st1, "q")
       ELSE [st1 EXCEPT !.pc = "loop",
                        !.socket = IF @.isNone THEN @
                                   ELSE AfterSleep(@, LoopSleep)]

\* ------------------------------------------- services/polar-encoder/main.py
N_RAYS == 2700
N_LEDS == 224
FRAME_PADDING == 1288
\* bytearray(0x1000)
HeaderSize == 4096

DITHER_MATRIX ==
    << <<0, 0, 0, 0, 0, 0, 0, 0, 0, 0, 0, 0>>,
       <<1, 0, 0, 0, 0, 0, 0, 0, 0, 0, 0, 0>>,
       <<1, 0, 0, 0, 0, 0, 1, 0, 0, 0, 0, 0>>,
       <<1, 0, 0, 0, 1, 0, 1, 0, 0, 0, 0, 0>>,
       <<1, 0, 0, 0, 1, 0, 1, 0, 0, 0, 1, 0>>,
       <<1, 0, 1, 0, 1, 0, 1, 0, 0, 0, 1, 0>>,
       <<1, 0, 1, 0, 1, 0, 1, 0, 1, 0, 1, 0>>,
       <<1, 0, 1, 0, 1, 0, 1, 1, 1, 0, 1, 0>>,
       <<1, 0, 1, 1, 1, 0, 1, 1, 1, 0, 1, 0>>,
       <<1, 0, 1, 1, 1, 0, 1, 1, 1, 0, 1, 1>>,
       <<1, 0, 1, 1, 1, 1, 1, 1, 1, 0, 1, 1>>,
       <<1, 1, 1, 1, 1, 1, 1, 1, 1, 0, 1, 1>>,
       <<1, 1, 1, 1, 1, 1, 1, 1, 1, 1, 1, 1>>,
       <<1, 1, 1, 1, 1, 1, 1, 1, 1, 1, 1, 1>>,
       <<1, 1, 1, 1, 1, 1, 1, 1, 1, 1, 1, 1>> >>

\* PolarEncoder.__init__, line 50
bytes_per_ray(n_leds) == ((n_leds \div 2) * 3) \div 8

\* The encoders of the model have 1, 2 or 4 rays and 2, 4 or 16 LEDs.  With
\* these the angle phi of every ray is a multiple of a quarter turn and
\* every radius is a dyadic fraction, so that each float of the code is the
\* exact value: cos and sin are 1, 0 or -1 once 0.5 + r * cos(phi) is
\* stored as float32 (the error of math.sin(math.pi), about 1e-16, is
\* rounded away), and coordinates are whole multiples of 1 / (2 * n_leds).
RayCounts == {1, 2, 4}
LedCounts == {2, 4, 16}

\* line 61: phi = 2 * pi * (n_rays - ray) / n_rays, in quarter turns
phi_quarters(n_rays, ray) == ((4 * (n_rays - ray)) \div n_rays) % 4
cos_quarters(q) == CASE q = 0 -> 1 [] q = 1 -> 0 [] q = 2 -> -1 [] q = 3 -> 0
sin_quarters(q) == CASE q = 0 -> 0 [] q = 1 -> 1 [] q = 2 -> 0 [] q = 3 -> -1

\* The table with phi = 2 * pi * ray / n_rays.
lookup_y_forward(n_rays, n_leds, ray, led) ==
    n_leds + (2 * led + 1) * sin_quarters(((4 * ray) \div n_rays) % 4)

\* _build_lookup_table, lines 65-68: 0.5 + r * cos(phi) and
\* 0.5 + r * sin(phi) with r = (led + 0.5) / n_leds, as numerators over
\* 2 * n_leds
lookup_x(n_rays, n_leds, ray, led) ==
    n_leds + (2 * led + 1) * cos_quarters(phi_quarters(n_rays, ray))
lookup_y(n_rays, n_leds, ray, led) ==
    n_leds + (2 * led + 1) * sin_quarters(phi_quarters(n_rays, ray))

\* An image is its shape (h, w) and its pixels px[row][column], each
\* (b, g, r), rows and columns counted from 1.
\* cv2.cvtColor(image, cv2.COLOR_BGR2RGB), on one pixel
BGR2RGB(pixel) == <<pixel[3], pixel[2], pixel[1]>>

\* _bilinear_sample, lines 120-146, at x = X / D, y = Y / D: int() of the
\* weighted sum of the four neighbours, per channel
bilinear_sample(img, X, Y, D) ==
    LET x0 == X \div D
        y0 == Y \div D
        x1 == Min(x0 + 1, img.w - 1)
        y1 == Min(y0 + 1, img.h - 1)
        xd == X % D
        yd == Y % D
        p(y, x) == BGR2RGB(img.px[y + 1][x + 1])
    IN [c \in 1..3 |->
          (p(y0, x0)[c] * (D - xd) * (D - yd) + p(y0, x1)[c] * xd * (D - yd)
             + p(y1, x0)[c] * (D - xd) * yd + p(y1, x1)[c] * xd * yd)
            \div (D * D)]

\* int(a / b) of Python for b > 0: truncation towards zero
TruncDiv(a, b) == IF a >= 0 THEN a \div b ELSE -((-a) \div b)

\* The level with the stretch inverted: (value - 16) * 224 / 255.
dither_level_inverted_stretch(value) ==
    LET stretched == TruncDiv((value - 16) * 224, 255)
        v == IF stretched < 0 THEN 0 ELSE Min(255, stretched)
        level == (v * 100) \div 1701
    IN IF level < 0 THEN 0 ELSE Min(14, level)

\* _ordered_dither, lines 151-155; value / 17.01 is value * 100 / 1701
dither_level(value) ==
    LET stretched == TruncDiv((value - 16) * 255, 224)
        v == IF stretched < 0 THEN 0 ELSE Min(255, stretched)
        level == (v * 100) \div 1701
    IN IF level < 0 THEN 0 ELSE Min(14, level)

\* _ordered_dither, lines 158-163, with ix0 = int(x), iy0 = int(y)
ordered_dither(ix0, iy0, value) ==
    LET ix == ix0 % 2
        iy == IF ix = 1 THEN ((iy0 % 12) + 6) % 12 ELSE iy0 % 12
    IN DITHER_MATRIX[dither_level(value) + 1][iy + 1]

\* Eight bits to one byte, the first bit in bit 0.
pack_byte_lsb_first(b) ==
    b[1] + 2 * b[2] + 4 * b[3] + 8 * b[4] + 16 * b[5] + 32 * b[6]
        + 64 * b[7] + 128 * b[8]

\* _pack_bits, lines 173-176: byte |= (bits[i + j] & 1) << (7 - j)
pack_byte(b) ==
    128 * (b[1] % 2) + 64 * (b[2] % 2) + 32 * (b[3] % 2) + 16 * (b[4] % 2)
        + 8 * (b[5] % 2) + 4 * (b[6] % 2) + 2 * (b[7] % 2) + (b[8] % 2)

\* _pack_bits, lines 165-178
pack_bits(bits) ==
    LET padded == bits \o Zeros((8 - (Len(bits) % 8)) % 8)
    IN [k \in 1..(Len(padded) \div 8) |->
          pack_byte(SubSeq(padded, 8 * (k - 1) + 1, 8 * k))]

\* encode_frame, lines 93-112: the bits of one ray, r, g, b of each LED
ray_bits(n_rays, n_leds, img, ray) ==
    LET D == 2 * n_leds
        bit(led, c) ==
            LET X == lookup_x(n_rays, n_leds, ray, led) * (img.w - 1)
                Y == lookup_y(n_rays, n_leds, ray, led) * (img.h - 1)
            IN ordered_dither(X \div D, Y \div D,
                              bilinear_sample(img, X, Y, D)[c])
    IN [k \in 1..((n_leds \div 2) * 3) |->
          bit((k - 1) \div 3, ((k - 1) % 3) + 1)]

\* The result of a call that raised, and of one that returned bytes.
Raised == [raised |-> TRUE, out |-> <<>>]
Returned(bytes) == [raised |-> FALSE, out |-> bytes]

\* encode_frame with the assert compiled away.
encode_frame_no_assert(n_rays, n_leds, img) ==
    Returned(Concat([i \in 1..n_rays |->
                       pack_bits(ray_bits(n_rays, n_leds, img, i - 1))]))

\* PolarEncoder.encode_frame, lines 70-118
encode_frame(n_rays, n_leds, img) ==
    IF img.h # img.w THEN Raised
    ELSE Returned(Concat([i \in 1..n_rays |->
                            pack_bits(ray_bits(n_rays, n_leds, img, i - 1))]))

\* _create_header, lines 204-220: bytes 5.. are random.randint(0, 255); the
\* model draws them from a run of zeros and a ramp
HeaderFills == {"zeros", "ramp"}
create_header(is_gif, fill) ==
    <<0, 0, 0, IF is_gif THEN 60 ELSE 1, 24>>
        \o [i \in 1..(HeaderSize - 5) |->
              IF fill = "zeros" THEN 0 ELSE (7 * i) % 256]

\* One frame of the container without the padding.
animation_frame_no_padding(frame_data) == frame_data

\* encode_animation, lines 196-200
animation_frame(frame_data) == frame_data \o Zeros(FRAME_PADDING)

\* PolarEncoder.encode_animation, lines 180-202: a frame whose
\* encode_frame raises ends the call
encode_animation(n_rays, n_leds, frames, fill) ==
    LET encoded == [i \in 1..Len(frames) |->
                      encode_frame(n_rays, n_leds, frames[i])]
    IN IF \E i \in 1..Len(frames) : encoded[i].raised
       THEN Raised
       ELSE Returned(create_header(TRUE, fill)
                \o Concat([i \in 1..Len(frames) |->
                             animation_frame(encoded[i].out)]))

\* The images callers pass: of side 1, 2 and 4 in one colour, white in the
\* top half (rows y < h / 2) and black below, and not square.
Pixel(v) == <<v, v, v>>
Uniform(h, w, pixel) ==
    [h |-> h, w |-> w, px |-> [y \in 1..h |-> [x \in 1..w |-> pixel]]]
TopWhite(n) ==
    [h |-> n, w |-> n,
     px |-> [y \in 1..n |-> [x \in 1..n |->
               IF 2 * (y - 1) < n THEN Pixel(255) ELSE Pixel(0)]]]
SquareImages ==
    {Uniform(1, 1, <<16, 240, 128>>), Uniform(2, 2, Pixel(255)),
     TopWhite(2), TopWhite(4)}
Images == SquareImages \cup {Uniform(1, 2, Pixel(255)), Uniform(2, 1, Pixel(0))}

\* All lists of at most n images
RECURSIVE FrameLists(_)
FrameLists(n) ==
    IF n = 0 THEN {<<>>}
    ELSE FrameLists(n - 1)
           \cup {Append(l, f) : l \in {l \in FrameLists(n - 1) : Len(l) = n - 1},
                                f \in Images}

\* All lists of at most n bits, and 1, 0, 0 repeated
RECURSIVE BitLists(_)
BitLists(n) ==
    IF n = 0 THEN {<<>>}
    ELSE BitLists(n - 1)
           \cup {Append(l, b) : l \in {l \in BitLists(n - 1) : Len(l) = n - 1},
                                b \in {0, 1}}
Pattern100(n) == [i \in 1..n |-> IF i % 3 = 1 THEN 1 ELSE 0]

\* The record of the last call of the encoder: the function, the encoder's
\* configuration, the arguments, the level _ordered_dither computed, and
\* the result.
EncIdle ==
    [fn |-> "none", n_rays |-> 0, n_leds |-> 0, bytes_per_ray |-> 0,
     frames |-> <<>>, bits |-> <<>>, value |-> 0, ix |-> 0, iy |-> 0,
     level |-> 0, result |-> Returned(<<>>)]

\* ------------------------------------- services/orchestrator/app/routers
\* The database as the handlers of sessions.py, videocall.py and
\* receptionist.py use it: core.devices (id -> status) and
\* conversations.sessions (rows in insertion order; the id of a row is its
\* position).  Every request has its own AsyncSession; what a statement
\* writes is seen by the other requests once its transaction commits
\* (committed for an inserted row, the frame's pc for an update), and an
\* UPDATE of a device row waits while another transaction holds that row
\* (lock).
OrchDevice == "device-1"
UnknownDevice == "device-0"
StartKinds == {"create_session", "start_videocall", "start_receptionist_mode"}

NoOrchRequest ==
    [kind |-> "none", pc |-> "done", device_id |-> "", session_id |-> 0,
     avatar |-> TRUE, lock |-> FALSE, outcome |-> "none"]

OrchInit ==
    [status |-> [d \in {OrchDevice} |-> "online"], sessions |-> <<>>,
     videocall_sessions |-> {}, active_sessions |-> {},
     reqs |-> [r \in 1..MaxOrchRequests |-> NoOrchRequest], n |-> 0]

\* The request r of o ends with an HTTP status or "ok".
OrchDone(o, r, outcome) ==
    [o EXCEPT !.reqs[r].pc = "done", !.reqs[r].outcome = outcome,
              !.reqs[r].lock = FALSE]

\* create_session, lines 23-33; start_videocall, lines 38-48;
\* start_receptionist_mode, lines 40-47 (it makes no busy test)
start_select(o, r) ==
    LET f == o.reqs[r]
    IN IF f.device_id \notin DOMAIN o.status THEN OrchDone(o, r, "404")
       ELSE IF f.kind = "start_receptionist_mode"
       THEN [o EXCEPT !.reqs[r].pc = "select_avatar"]
       ELSE IF o.status[f.device_id] = "busy" THEN OrchDone(o, r, "409")
       ELSE [o EXCEPT !.reqs[r].pc = "insert"]

\* start_receptionist_mode, lines 50-57
start_select_avatar(o, r) ==
    IF ~o.reqs[r].avatar THEN OrchDone(o, r, "404")
    ELSE [o EXCEPT !.reqs[r].pc = "insert"]

\* INSERT INTO conversations.sessions ... RETURNING id (sessions.py 36-47)
start_insert(o, r) ==
    LET f == o.reqs[r]
        row == [device_id |-> f.device_id, mode |-> f.kind, ended |-> FALSE,
                committed |-> FALSE]
    IN [o EXCEPT !.sessions = Append(@, row),
                 !.reqs[r].session_id = Len(o.sessions) + 1,
                 !.reqs[r].pc = "commit_insert"]

\* await db.commit() after the INSERT (sessions.py 48-50); receptionist.py
\* 77-83 then fills its cache
start_commit_insert(o, r) ==
    LET f == o.reqs[r]
    IN [o EXCEPT !.sessions[f.session_id].committed = TRUE,
                 !.active_sessions =
                     IF f.kind = "start_receptionist_mode"
                     THEN @ \cup {f.session_id} ELSE @,
                 !.reqs[r].pc = "update"]

\* UPDATE core.devices SET status = 'busy' (sessions.py 53-56)
start_update(o, r) ==
    [o EXCEPT !.reqs[r].lock = TRUE, !.reqs[r].pc = "commit_update"]

\* await db.commit() after the UPDATE and the rest of the handler
\* (sessions.py 57-68, videocall.py 73-99, receptionist.py 90-92)
start_commit_update(o, r) ==
    LET f == o.reqs[r]
        o1 == [o EXCEPT !.status[f.device_id] = "busy", !.reqs[r].lock = FALSE]
    IN CASE f.kind = "create_session" -> OrchDone(o1, r, "ok")
         [] f.kind = "start_videocall" ->
              OrchDone([o1 EXCEPT !.videocall_sessions = @ \cup {f.session_id}],
                       r, "ok")
         [] f.kind = "start_receptionist_mode" ->
              [o1 EXCEPT !.reqs[r].pc = "greeting"]

\* end_session, lines 111-118
end_select(o, r) ==
    LET id == o.reqs[r].session_id
    IN IF id \in 1..Len(o.sessions) /\ o.sessions[id].committed
       THEN [o EXCEPT !.reqs[r].device_id = o.sessions[id].device_id,
                      !.reqs[r].pc = "update_session"]
       ELSE OrchDone(o, r, "404")

\* end_session, lines 131-134: UPDATE core.devices SET status = 'online'
end_update_device(o, r) ==
    [o EXCEPT !.reqs[r].lock = TRUE, !.reqs[r].pc = "commit"]

\* end_session, lines 135-137: the commit of both updates
end_commit(o, r) ==
    LET f == o.reqs[r]
    IN OrchDone([o EXCEPT !.sessions[f.session_id].ended = TRUE,
                          !.status[f.device_id] = "online"], r, "ok")

\* The step of request r from its pc
orch_step(o, r) ==
    LET f == o.reqs[r]
    IN CASE f.pc = "select_avatar" -> start_select_avatar(o, r)
         [] f.pc = "insert" -> start_insert(o, r)
         [] f.pc = "commit_insert" -> start_commit_insert(o, r)
         [] f.pc = "update" -> start_update(o, r)
         [] f.pc = "commit_update" -> start_commit_update(o, r)
         [] f.pc = "greeting" -> OrchDone(o, r, "ok")
         [] f.pc = "update_session" ->
              [o EXCEPT !.reqs[r].pc = "update_device"]
         [] f.pc = "update_device" -> end_update_device(o, r)
         [] f.pc = "commit" -> end_commit(o, r)

\* Another request holds the row of the device request r is about to update.
RowLocked(o, r) ==
    \E q \in 1..MaxOrchRequests :
        q # r /\ o.reqs[q].lock /\ o.reqs[q].device_id = o.reqs[r].device_id

\* ------------------------------------------------------------------ inputs
Stem(n) == [i \in 1..n |-> 97]
StemLens == {1, 95, 96}
\* 'demo.bin'
DemoBin == <<100, 101, 109, 111>> \o DotBin
\* Names below, at and above 99 bytes, with and without the extension, the
\* empty name, and a 99-character name of 100 bytes ('é' is two bytes).
Filenames ==
    {Stem(n) \o e : n \in StemLens, e \in {<<>>, DotBin}}
        \cup {<<>>, DemoBin, <<233>> \o Stem(94) \o DotBin}

\* 0..MaxChunks full DATA bodies, and one byte more; 1437 bytes.
DataLens ==
    {k * payload_size + d : k \in 0..MaxChunks, d \in {0, 1}} \cup {1437}
\* Payloads: ramps of non-zero bytes, and one of zero bytes only (a payload
\* that ends like the padding).
Ramp(n) == [i \in 1..n |-> 1 + (i % 255)]
Payloads == {Ramp(n) : n \in DataLens} \cup {Zeros(payload_size + 1)}
\* What the network does to the first step of an upload: the connect
\* raises (when one is made), the send of NAME raises, or both succeed.
UploadEnvs(sock) ==
    (IF sock.isNone THEN {"connect_raises"} ELSE {}) \cup {"send_raises", "ok"}
\* Every name with a one-byte payload, every payload with one name.
Uploads ==
    {<<f, Ramp(1)>> : f \in Filenames} \cup {<<DemoBin, d>> : d \in Payloads}
\* The commands callers pass: the four of the protocol and an unknown one.
Commands == {"pause", "play", "status", "delete", "stop"}

\* ------------------------------------------------------------ fan-driver
DeviceIPs == {"192.168.4.1", "192.168.4.2"}
\* 'animation.bin'
AnimationBin == <<97, 110, 105, 109, 97, 116, 105, 111, 110>> \o DotBin
\* The files clients post: (file.filename, contents); one has no filename.
PostedFiles == {<<DemoBin, Ramp(1)>>, <<<<>>, Ramp(data_payload_size + 1)>>}

\* FanDevice(ip=ip): status OFFLINE, current_file None (lines 45-51)
FanDevice(ip) == [ip |-> ip, status |-> "offline", current_file |-> <<"None">>]

\* The frame of one /upload request: the FanDevice object `device` refers
\* to, the TCPFanClient of do_upload and the frame of its upload_file.
NoRequest ==
    [kind |-> "none", pc |-> "done", device_ip |-> "", device |-> 0,
     posted |-> <<<<>>, <<>>>>, filename |-> <<>>, data |-> <<>>,
     client |-> None, frame |-> Idle]

\* upload_to_device, line 285: file.filename or "animation.bin"
upload_filename(name) == IF name = <<>> THEN AnimationBin ELSE name

\* do_upload, lines 291-297, on the object `device` refers to
do_upload_finish(dev, success, filename) ==
    IF success
    THEN [dev EXCEPT !.status = "playing", !.current_file = filename]
    ELSE [dev EXCEPT !.status = "error"]

\* register_device, lines 231-245: the new FanDevice
register_device_object(ip, protocol, connOk) ==
    IF protocol = "tcp" /\ connOk
    THEN [FanDevice(ip) EXCEPT !.status = "online"]
    ELSE FanDevice(ip)

\* ping_device, line 345
ping_device_status(online) == IF online THEN "online" ELSE "offline"

\* ------------------------------------------------------------------- state
VARIABLES
    fp,      \* the FanProtocol instance: its _upload_socket
    tc,      \* the TCPFanClient instance: its socket
    call,    \* the frame of the client's call in progress
    ncalls,  \* calls made so far
    ctl,     \* the record of the last control call
    nopen,   \* control sockets opened and still not closed
    probe,   \* the record of the last is_online call
    devices, \* fan-driver: the registry, ip -> FanDevice object (0: no entry)
    objs,    \* fan-driver: the FanDevice objects made so far
    reqs,    \* fan-driver: the frames of the HTTP requests
    nreq,    \* fan-driver: requests received so far
    stream,  \* the WebcamToFan instance and the frame of its run()
    enc,     \* the record of the last call of the polar encoder
    orch     \* the orchestrator: its database, caches and requests

uploadVars == <<fp, tc, call>>
controlVars == <<ctl, nopen, probe>>
driverVars == <<devices, objs, reqs, nreq>>
streamVars == <<stream>>
encVars == <<enc>>
orchVars == <<orch>>
vars ==
    <<fp, tc, call, ncalls, ctl, nopen, probe, devices, objs, reqs, nreq,
      stream, enc, orch>>

Init ==
    /\ fp = None
    /\ tc = None
    /\ call = Idle
    /\ ncalls = 0
    /\ ctl = ControlIdle
    /\ nopen = 0
    /\ probe = ProbeIdle
    /\ devices = [ip \in DeviceIPs |-> 0]
    /\ objs = <<>>
    /\ reqs = [r \in 1..MaxRequests |-> NoRequest]
    /\ nreq = 0
    /\ stream = StreamInit
    /\ enc = EncIdle
    /\ orch = OrchInit

\* A caller starts FanProtocol.upload_bin(filename, data).
UploadBinCall ==
    /\ call.pc = "done"
    /\ ncalls < MaxCalls
    /\ \E u \in Uploads, env \in UploadEnvs(fp) :
         LET r == upload_bin_begin(fp, u[1], u[2], env # "connect_raises",
                                   env = "send_raises")
         IN /\ fp' = r.sock
            /\ call' = r.frame
    /\ ncalls' = ncalls + 1
    /\ UNCHANGED <<tc, controlVars, driverVars, streamVars, encVars, orchVars>>

\* upload_bin resumes from a sleep.
UploadBinStep ==
    /\ call.fn = "upload_bin"
    /\ call.pc \in {"after_name", "after_data"}
    /\ \E err \in BOOLEAN :
         LET r == upload_bin_resume(fp, call, err)
         IN /\ fp' = r.sock
            /\ call' = r.frame
    /\ UNCHANGED <<tc, ncalls, controlVars, driverVars, streamVars, encVars,
                   orchVars>>

\* A caller calls FanProtocol.disconnect_upload() between two calls.
DisconnectUpload ==
    /\ call.pc = "done"
    /\ ~fp.isNone
    /\ fp' = disconnect_upload(fp)
    /\ UNCHANGED <<tc, call, ncalls,
                   controlVars, driverVars, streamVars, encVars, orchVars>>

\* A caller starts TCPFanClient.upload_file(filename, data, delay).
UploadFileCall ==
    /\ call.pc = "done"
    /\ ncalls < MaxCalls
    /\ \E u \in Uploads, delay \in Delays, env \in UploadEnvs(tc) :
         LET r == upload_file_begin(tc, u[1], u[2], delay,
                                    env # "connect_raises", env = "send_raises")
         IN /\ tc' = r.sock
            /\ call' = r.frame
    /\ ncalls' = ncalls + 1
    /\ UNCHANGED <<fp, controlVars, driverVars, streamVars, encVars, orchVars>>

\* upload_file resumes from a sleep.
UploadFileStep ==
    /\ call.fn = "upload_file"
    /\ call.pc \in {"after_name", "after_data"}
    /\ \E err \in BOOLEAN :
         LET r == upload_file_resume(tc, call, err)
         IN /\ tc' = r.sock
            /\ call' = r.frame
    /\ UNCHANGED <<fp, ncalls, controlVars, driverVars, streamVars, encVars,
                   orchVars>>

\* A caller calls TCPFanClient.disconnect() between two calls.
Disconnect ==
    /\ call.pc = "done"
    /\ ~tc.isNone
    /\ tc' = disconnect(tc)
    /\ UNCHANGED <<fp, call, ncalls,
                   controlVars, driverVars, streamVars, encVars, orchVars>>

Next ==
    \/ UploadBinCall
    \/ UploadBinStep
    \/ DisconnectUpload
    \/ UploadFileCall
    \/ UploadFileStep
    \/ Disconnect

Spec == Init /\ [][Next]_vars

\* ------------------------------------------------- the control commands
\* A caller calls FanProtocol.send_control(command).
SendControlCall ==
    /\ ncalls < MaxCalls
    /\ \E command \in Commands, env \in ControlEnvs :
         /\ ctl' = send_control(command, env)
         /\ nopen' = nopen + (IF ctl'.opened /\ ~ctl'.closed THEN 1 ELSE 0)
    /\ ncalls' = ncalls + 1
    /\ UNCHANGED <<uploadVars, probe, driverVars, streamVars, encVars,
                   orchVars>>

\* A caller calls TCPFanClient.send_command(command).
SendCommandCall ==
    /\ ncalls < MaxCalls
    /\ \E command \in Commands, env \in ControlEnvs :
         /\ ctl' = send_command(command, env)
         /\ nopen' = nopen + (IF ctl'.opened /\ ~ctl'.closed THEN 1 ELSE 0)
    /\ ncalls' = ncalls + 1
    /\ UNCHANGED <<uploadVars, probe, driverVars, streamVars, encVars,
                   orchVars>>

\* A caller calls FanProtocol.is_online().
IsOnlineCall ==
    /\ ncalls < MaxCalls
    /\ \E outcome \in ConnectOutcomes : probe' = is_online(outcome)
    /\ ncalls' = ncalls + 1
    /\ UNCHANGED <<uploadVars, ctl, nopen, driverVars, streamVars, encVars,
                   orchVars>>

NextControl ==
    \/ SendControlCall
    \/ SendCommandCall
    \/ IsOnlineCall

SpecControl == Init /\ [][NextControl]_vars

\* --------------------------------------------------------- the streamer
\* main() calls streamer.run(show_preview).
RunCall ==
    /\ stream.pc = "init"
    /\ \E show_preview \in BOOLEAN, camera \in CameraOutcomes,
          fan \in FanOutcomes :
         stream' = run_begin(stream, show_preview, camera, fan)
    /\ UNCHANGED <<uploadVars, ncalls, controlVars, driverVars, encVars,
                   orchVars>>

\* The while loop of run takes a turn: it reads a frame.
ReadFrame ==
    /\ stream.pc = "loop"
    /\ \E outcome \in ReadOutcomes, processed \in ProcessedFrames :
         /\ outcome = "no_frame" \/ stream.reads < MaxFrames
         /\ stream' = run_read(stream, outcome, processed)
    /\ UNCHANGED <<uploadVars, ncalls, controlVars, driverVars, encVars,
                   orchVars>>

\* send_frame_to_fan sends the next chunk; a send on a socket whose
\* connect failed raises.
SendChunk ==
    /\ stream.pc = "send"
    /\ \E sendOk \in BOOLEAN :
         /\ sendOk => stream.socket.connected
         /\ stream' = send_frame_step(stream, sendOk)
    /\ UNCHANGED <<uploadVars, ncalls, controlVars, driverVars, encVars,
                   orchVars>>

\* run goes on after the frame: the preview, the key, the sleep.
AfterFrame ==
    /\ stream.pc = "after_send"
    /\ \E key \in Keys : stream' = run_after_send(stream, key)
    /\ UNCHANGED <<uploadVars, ncalls, controlVars, driverVars, encVars,
                   orchVars>>

\* Ctrl-C while run is inside its try block: except KeyboardInterrupt,
\* then finally.
KeyboardInterrupt ==
    /\ stream.pc \in {"loop", "send", "after_send"}
    /\ stream' = run_finally(stream, "KeyboardInterrupt")
    /\ UNCHANGED <<uploadVars, ncalls, controlVars, driverVars, encVars,
                   orchVars>>

NextStream ==
    \/ RunCall
    \/ ReadFrame
    \/ SendChunk
    \/ AfterFrame
    \/ KeyboardInterrupt

SpecStream == Init /\ [][NextStream]_vars

\* ------------------------------------------------------ the polar encoder
\* The encoder keeps nothing from one call to the next (its tables are
\* fixed at construction): each behaviour makes one call.
\* A caller makes a PolarEncoder(n_rays, n_leds) and calls encode_frame.
EncodeFrameCall ==
    /\ enc.fn = "none"
    /\ \E n_rays \in RayCounts, n_leds \in LedCounts, img \in Images :
         enc' = [EncIdle EXCEPT !.fn = "encode_frame", !.n_rays = n_rays,
                                !.n_leds = n_leds,
                                !.bytes_per_ray = bytes_per_ray(n_leds),
                                !.frames = <<img>>,
                                !.result = encode_frame(n_rays, n_leds, img)]
    /\ UNCHANGED <<uploadVars, ncalls, controlVars, driverVars, streamVars,
                   orchVars>>

\* A caller makes a PolarEncoder(n_rays, n_leds) and calls encode_animation.
EncodeAnimationCall ==
    /\ enc.fn = "none"
    /\ \E n_rays \in RayCounts, n_leds \in LedCounts,
          frames \in FrameLists(MaxAnimationFrames), fill \in HeaderFills :
         enc' = [EncIdle EXCEPT !.fn = "encode_animation", !.n_rays = n_rays,
                                !.n_leds = n_leds,
                                !.bytes_per_ray = bytes_per_ray(n_leds),
                                !.frames = frames,
                                !.result = encode_animation(n_rays, n_leds,
                                                            frames, fill)]
    /\ UNCHANGED <<uploadVars, ncalls, controlVars, driverVars, streamVars,
                   orchVars>>

\* A caller calls _pack_bits(bits).
PackBitsCall ==
    /\ enc.fn = "none"
    /\ \E bits \in BitLists(MaxBits) \cup {Pattern100(24)} :
         enc' = [EncIdle EXCEPT !.fn = "_pack_bits", !.bits = bits,
                                !.result = Returned(pack_bits(bits))]
    /\ UNCHANGED <<uploadVars, ncalls, controlVars, driverVars, streamVars,
                   orchVars>>

\* A caller calls _ordered_dither(x, y, value) with int(x), int(y) = ix, iy.
OrderedDitherCall ==
    /\ enc.fn = "none"
    /\ \E value \in 0..255, ix \in 0..1, iy \in 0..11 :
         enc' = [EncIdle EXCEPT !.fn = "_ordered_dither", !.value = value,
                                !.ix = ix, !.iy = iy,
                                !.level = dither_level(value),
                                !.result =
                                    Returned(<<ordered_dither(ix, iy, value)>>)]
    /\ UNCHANGED <<uploadVars, ncalls, controlVars, driverVars, streamVars,
                   orchVars>>

NextEncoder ==
    \/ EncodeFrameCall
    \/ EncodeAnimationCall
    \/ PackBitsCall
    \/ OrderedDitherCall

SpecEncoder == Init /\ [][NextEncoder]_vars

\* ------------------------------------------------------ the orchestrator
\* POST /sessions/, /videocall/start or /receptionist/start arrives: the
\* handler runs its SELECT on core.devices.
StartRequest(r) ==
    /\ r = orch.n + 1
    /\ \E kind \in StartKinds, device_id \in {OrchDevice, UnknownDevice},
          avatar \in BOOLEAN :
         orch' = start_select(
                   [orch EXCEPT !.n = r,
                                !.reqs[r] = [NoOrchRequest EXCEPT
                                               !.kind = kind, !.pc = "select",
                                               !.device_id = device_id,
                                               !.avatar = avatar]], r)
    /\ UNCHANGED <<uploadVars, ncalls, controlVars, driverVars, streamVars,
                   encVars>>

\* DELETE /sessions/{session_id} arrives: the handler runs its SELECT.
EndRequest(r) ==
    /\ r = orch.n + 1
    /\ \E session_id \in 1..MaxOrchRequests :
         orch' = end_select(
                   [orch EXCEPT !.n = r,
                                !.reqs[r] = [NoOrchRequest EXCEPT
                                               !.kind = "end_session",
                                               !.pc = "select",
                                               !.session_id = session_id]], r)
    /\ UNCHANGED <<uploadVars, ncalls, controlVars, driverVars, streamVars,
                   encVars>>

\* The database answers the statement or commit request r awaits.
OrchStep(r) ==
    /\ orch.reqs[r].pc # "done"
    /\ orch.reqs[r].pc \in {"update", "update_device"} => ~RowLocked(orch, r)
    /\ orch' = orch_step(orch, r)
    /\ UNCHANGED <<uploadVars, ncalls, controlVars, driverVars, streamVars,
                   encVars>>

NextSessions ==
    \/ \E r \in 1..MaxOrchRequests : StartRequest(r)
    \/ \E r \in 1..MaxOrchRequests : EndRequest(r)
    \/ \E r \in 1..MaxOrchRequests : OrchStep(r)

SpecSessions == Init /\ [][NextSessions]_vars

\* ------------------------------------------------------- the fan-driver
\* POST /upload/{device_ip}, lines 277-284: up to the await of file.read()
UploadRequest(r) ==
    /\ reqs[r].kind = "none"
    /\ nreq < MaxRequests
    /\ \E ip \in DeviceIPs, file \in PostedFiles :
         LET fresh == devices[ip] = 0
             d == IF fresh THEN Len(objs) + 1 ELSE devices[ip]
             objs1 == IF fresh THEN Append(objs, FanDevice(ip)) ELSE objs
         IN /\ devices' = [devices EXCEPT ![ip] = d]
            /\ objs' = [objs1 EXCEPT ![d].status = "uploading"]
            /\ reqs' = [reqs EXCEPT ![r] =
                          [NoRequest EXCEPT !.kind = "upload", !.pc = "read",
                                            !.device_ip = ip, !.device = d,
                                            !.posted = file]]
    /\ nreq' = nreq + 1
    /\ UNCHANGED <<uploadVars, ncalls, controlVars, streamVars, encVars,
                   orchVars>>

\* lines 284-301: file.read() returns, the background task is added and the
\* response is returned
UploadRead(r) ==
    /\ reqs[r].kind = "upload" /\ reqs[r].pc = "read"
    /\ reqs' = [reqs EXCEPT ![r].data = reqs[r].posted[2],
                            ![r].filename = upload_filename(reqs[r].posted[1]),
                            ![r].pc = "task"]
    /\ UNCHANGED <<uploadVars, ncalls, controlVars, devices,
                   objs, nreq, streamVars, encVars, orchVars>>

\* The request after a step of upload_file: when upload_file has returned,
\* lines 291-297 run in the same step.
DoUploadAfter(r, res) ==
    IF res.frame.pc = "done"
    THEN /\ reqs' = [reqs EXCEPT ![r].client = disconnect(res.sock),
                                 ![r].frame = res.frame, ![r].pc = "done"]
         /\ objs' = [objs EXCEPT ![reqs[r].device] =
                        do_upload_finish(@, res.frame.result = "True",
                                         reqs[r].filename)]
    ELSE /\ reqs' = [reqs EXCEPT ![r].client = res.sock,
                                 ![r].frame = res.frame, ![r].pc = "upload"]
         /\ UNCHANGED objs

\* do_upload, lines 289-290: the background task starts and runs to the first
\* sleep of upload_file
DoUploadBegin(r) ==
    /\ reqs[r].kind = "upload" /\ reqs[r].pc = "task"
    /\ \E env \in UploadEnvs(None) :
         DoUploadAfter(r, upload_file_begin(None, reqs[r].filename, reqs[r].data,
                                            DEFAULT_DELAY, env # "connect_raises",
                                            env = "send_raises"))
    /\ UNCHANGED <<uploadVars, ncalls, controlVars,
                   devices, nreq, streamVars, encVars, orchVars>>

\* upload_file resumes from a sleep
DoUploadStep(r) ==
    /\ reqs[r].kind = "upload" /\ reqs[r].pc = "upload"
    /\ \E err \in BOOLEAN :
         DoUploadAfter(r, upload_file_resume(reqs[r].client, reqs[r].frame, err))
    /\ UNCHANGED <<uploadVars, ncalls, controlVars,
                   devices, nreq, streamVars, encVars, orchVars>>

\* POST /register, lines 231-254 (connect awaits nothing: one step)
RegisterDevice ==
    /\ nreq < MaxRequests
    /\ \E ip \in DeviceIPs, protocol \in {"tcp", "http"}, connOk \in BOOLEAN :
         /\ objs' = Append(objs, register_device_object(ip, protocol, connOk))
         /\ devices' = [devices EXCEPT ![ip] = Len(objs) + 1]
    /\ nreq' = nreq + 1
    /\ UNCHANGED <<uploadVars, ncalls, controlVars, reqs, streamVars,
                   encVars, orchVars>>

\* GET /ping/{device_ip}, lines 340-350 (one step)
PingDevice ==
    /\ nreq < MaxRequests
    /\ \E ip \in DeviceIPs, online \in BOOLEAN :
         /\ objs' = IF devices[ip] # 0
                    THEN [objs EXCEPT ![devices[ip]].status = ping_device_status(online)]
                    ELSE objs
    /\ nreq' = nreq + 1
    /\ UNCHANGED <<uploadVars, ncalls, controlVars,
                   devices, reqs, streamVars, encVars, orchVars>>

NextDriver ==
    \/ \E r \in 1..MaxRequests : UploadRequest(r)
    \/ \E r \in 1..MaxRequests : UploadRead(r)
    \/ \E r \in 1..MaxRequests : DoUploadBegin(r)
    \/ \E r \in 1..MaxRequests : DoUploadStep(r)
    \/ RegisterDevice
    \/ PingDevice

SpecDriver == Init /\ [][NextDriver]_vars

\* ----------------------------------------------------- reading the wire
\* What a receiver reads from one packet.
Tag(pkt) == SubSeq(pkt, 9, 12)
Body(pkt) == SubSeq(pkt, 13, Len(pkt) - 4)
IsName(e) == Tag(e.pkt) = TYPE_NAME
IsData(e) == Tag(e.pkt) = TYPE_DATA
IsEnd(e) == Tag(e.pkt) = TYPE_END
\* The length a NAME packet advertises, and the name it carries.
Advertised(pkt) == UnpackBE32(SubSeq(pkt, 13, 16))
NameBytes(pkt) == SubSeq(pkt, 17, Len(pkt) - 4)
IsUpload == call.fn \in {"upload_bin", "upload_file"}
DataSent == SelectSeq(call.sent, IsData)
DataBodies == [i \in 1..Len(DataSent) |-> Body(DataSent[i].pkt)]

\* C1: in every upload the packets sent are NAME first and only first, then
\* DATA packets whose offsets strictly ascend and which carry the payload
\* slice at their offset, then END last and only in a completed upload; in
\* a completed upload the slices sent tile the payload from offset 0 on.
C1_PacketOrder ==
    IsUpload =>
        LET n == Len(call.sent)
            e(i) == call.sent[i]
        IN /\ \A i \in 1..n : IsName(e(i)) <=> (i = 1)
           /\ \A i \in 1..n : IsData(e(i)) \/ IsEnd(e(i)) \/ i = 1
           /\ \A i \in 1..n : IsEnd(e(i)) => (i = n /\ call.result = "True")
           /\ \A i, j \in 1..n :
                (i < j /\ IsData(e(i)) /\ IsData(e(j))) => e(i).off < e(j).off
           /\ \A i \in 1..n : IsData(e(i)) =>
                LET m == Min(Len(Body(e(i).pkt)), Len(call.data) - e(i).off)
                IN /\ m > 0
                   /\ Take(Body(e(i).pkt), m)
                        = SubSeq(call.data, e(i).off + 1, e(i).off + m)
           /\ call.result = "True" =>
                /\ n >= 2 /\ IsEnd(e(n))
                /\ \A i \in 2..(n - 1) :
                     /\ IsData(e(i))
                     /\ e(i).off = IF i = 2 THEN 0
                                   ELSE e(i - 1).off + Len(Body(e(i - 1).pkt))
                /\ Len(call.data) <= IF n = 2 THEN 0
                                     ELSE e(n - 1).off + Len(Body(e(n - 1).pkt))

\* A completed upload of more than one DATA packet.
C1_Witness == IsUpload /\ call.result = "True" /\ Len(DataSent) >= 2

\* A completed upload of n bytes has sent ceil(n/size) DATA packets, each
\* 1460 bytes long with a body of `size` bytes, the last body being the rest
\* of the payload followed by zero bytes when `size` does not divide n.
DataPacketsOf(size) ==
    (IsUpload /\ call.result = "True") =>
        LET n == Len(call.data)
            k == Len(DataSent)
        IN /\ k = (n + size - 1) \div size
           /\ \A i \in 1..k : /\ Len(DataSent[i].pkt) = 1460
                              /\ Len(DataBodies[i]) = size
           /\ (n % size # 0) =>
                DataBodies[k] = SubSeq(call.data, n - (n % size) + 1, n)
                                    \o Zeros(size - (n % size))

\* C2 as stated: a completed upload of n bytes has sent ceil(n/1436) DATA
\* packets, each 1460 bytes long with a 1436-byte body, the last body
\* zero-padded to 1436 bytes.
C2_DataPackets1436 == DataPacketsOf(1436)

\* C2 amended: a completed upload of n bytes has sent ceil(n/1444) DATA
\* packets, each 1460 bytes long (8-byte header, 4-byte tag, 1444-byte body,
\* 4-byte trailer), the last body being the rest of the payload followed by
\* zero bytes up to 1444 when 1444 does not divide n.
C2_DataPackets1444 == DataPacketsOf(1444)

\* A completed upload_file whose last DATA packet is padded.
C2_Witness ==
    /\ call.fn = "upload_file" /\ call.result = "True"
    /\ Len(call.data) > 1444 /\ Len(call.data) % 1444 # 0

\* C3: in a completed upload the NAME packet advertises len(payload), and
\* the DATA bodies concatenated in the order sent and trimmed to the
\* advertised length are the payload.
C3_RoundTrip ==
    (IsUpload /\ call.result = "True") =>
        /\ Advertised(call.sent[1].pkt) = Len(call.data)
        /\ Take(Concat(DataBodies), Advertised(call.sent[1].pkt)) = call.data

\* A completed upload_bin of a payload that ends in zero bytes, the last
\* DATA packet padded.
C3_Witness ==
    /\ call.fn = "upload_bin" /\ call.result = "True"
    /\ call.data = Zeros(1445)

\* C4: every send on an upload socket that follows another send on that
\* socket comes after at least 30 ms of sleep.
C4_Pacing ==
    IsUpload => \A i \in 1..Len(call.sent) :
                    call.sent[i].first \/ call.sent[i].gap >= 30

\* C6: once upload_bin has returned True the instance holds no upload
\* socket, and no connection has carried more than one NAME packet.
C6_OneUploadPerConnection ==
    /\ (call.fn = "upload_bin" /\ call.result = "True") => fp.isNone
    /\ fp.names <= 1

\* C7: a send that raises ends the upload there: it is the only one that
\* raised, the call has returned False, END was not sent, and no packet
\* was sent twice.
C7_FirstErrorEnds ==
    (IsUpload /\ call.raises > 0) =>
        /\ call.raises = 1
        /\ call.pc = "done" /\ call.result = "False"
        /\ \A i \in 1..Len(call.sent) : ~IsEnd(call.sent[i])
        /\ \A i, j \in 1..Len(call.sent) :
             i # j => /\ ~(IsName(call.sent[i]) /\ IsName(call.sent[j]))
                      /\ (IsData(call.sent[i]) /\ IsData(call.sent[j]))
                            => call.sent[i].off # call.sent[j].off

\* A send raised after NAME and one DATA packet were sent.
C7_Witness == IsUpload /\ call.raises = 1 /\ Len(call.sent) >= 2

\* C8: when upload_bin has returned False because a send raised, the
\* instance holds no upload socket.
C8_ClosedAfterError ==
    (call.fn = "upload_bin" /\ call.pc = "done" /\ call.raises > 0) => fp.isNone

\* C9: the name bytes in a NAME packet are at most 99 bytes and end with
\* '.bin'.
C9_NameBytes ==
    (IsUpload /\ Len(call.sent) >= 1) =>
        /\ Len(NameBytes(call.sent[1].pkt)) <= 99
        /\ EndsWith(NameBytes(call.sent[1].pkt), DotBin)

\* C10: every control call whose socket connected has closed that socket
\* when it returns, whether it succeeded or a send or a receive raised, and
\* a call that succeeded sent exactly one packet.
C10_ControlSocketClosed ==
    /\ ctl.connected => ctl.closed
    /\ ctl.result => Len(ctl.sent) = 1

\* An /upload request whose upload_file is between two of its sends.
InFlight(r) ==
    reqs[r].kind = "upload" /\ reqs[r].frame.pc \in {"after_name", "after_data"}

\* C5: at most one upload to a fan is in flight at a time: no two /upload
\* requests for the same device are both between the first and the last
\* send of their upload_file.
C5_SerialPerFan ==
    \A r1, r2 \in 1..MaxRequests :
        (r1 # r2 /\ InFlight(r1) /\ InFlight(r2))
            => reqs[r1].device_ip # reqs[r2].device_ip

\* ------------------------------------------------- the control commands
FourCommands == {"pause", "play", "status", "delete"}
\* The ASCII codes '34', '35', '38', '39'
ControlCode(c) ==
    CASE c = "pause" -> <<51, 52>>
      [] c = "play" -> <<51, 53>>
      [] c = "status" -> <<51, 56>>
      [] c = "delete" -> <<51, 57>>
StartsWith(s, p) == Len(s) >= Len(p) /\ SubSeq(s, 1, Len(p)) = p
Distinct(f) == \A a, b \in DOMAIN f : a # b => f[a] # f[b]

\* C11: a call of send_control or send_command with pause, play, status or
\* delete is not rejected as an unknown command, every packet it sends
\* starts with the control header followed by the command's code 34, 35, 38
\* or 39, a call that succeeded sent one packet, and the codes of each
\* function are pairwise distinct.
C11_FourCommandsAccepted ==
    /\ Distinct(send_control_commands) /\ Distinct(send_command_commands)
    /\ (ctl.fn # "none" /\ ctl.command \in FourCommands) =>
          /\ ctl.returned # "unknown_command"
          /\ ctl.returned = "success" => Len(ctl.sent) = 1
          /\ \A i \in 1..Len(ctl.sent) :
               StartsWith(ctl.sent[i],
                          CONTROL_HEADER \o ControlCode(ctl.command))

\* C12: send_control calls recv at most once and only for status; a recv
\* that times out leaves the call successful with response None; pause,
\* play and delete make no recv and their response is None.
C12_ReceiveOnlyForStatus ==
    ctl.fn = "send_control" =>
        /\ Len(ctl.recvs) <= 1
        /\ Len(ctl.recvs) > 0 => ctl.command = "status"
        /\ ctl.recvs = <<"timeout">> =>
              /\ ctl.returned = "success" /\ ctl.result
              /\ ctl.response = NoResponse
        /\ ctl.command \in {"pause", "play", "delete"} =>
              ctl.recvs = <<>> /\ ctl.response = NoResponse

\* send_control("status") whose recv timed out.
C12_Witness ==
    ctl.fn = "send_control" /\ ctl.command = "status"
        /\ ctl.recvs = <<"timeout">>

\* C13: a call with a command outside the four returns failure from the
\* unknown-command branch: it opened no socket, sent nothing and received
\* nothing.
C13_UnknownCommandRejected ==
    (ctl.fn # "none" /\ ctl.command \notin FourCommands) =>
        /\ ctl.returned = "unknown_command"
        /\ ~ctl.result /\ ctl.response = NoResponse
        /\ ~ctl.opened /\ ~ctl.connected
        /\ ctl.sent = <<>> /\ ctl.recvs = <<>>

\* send_control("stop") has returned.
C13_Witness ==
    ctl.fn = "send_control" /\ ctl.command = "stop"
        /\ ctl.returned = "unknown_command"

\* C14: is_online ends by returning a boolean whatever the connect attempt
\* does, and returns True exactly when the connect succeeded.
C14_ProbeReturnsBoolean ==
    probe.fn = "is_online" =>
        /\ probe.returned \in {"True", "False"}
        /\ probe.returned = "True" <=> probe.outcome = "success"

\* A probe whose connect_ex raised has returned False.
C14_Witness ==
    probe.fn = "is_online" /\ probe.outcome = "connect_ex_raises"
        /\ probe.returned = "False"

\* ------------------------------------------------------------ streaming
\* The receiver's reading of a streamed packet: after the 8-byte header and
\* the 4-byte type, a little-endian chunk index, a little-endian length,
\* the body, the 4-byte trailer.
ChunkIndex(pkt) == pkt[13] + 256 * pkt[14]
LengthField(pkt) == pkt[15] + 256 * pkt[16]
StreamBody(pkt) == SubSeq(pkt, 17, Len(pkt) - 4)
IsEv(k, e) == stream.log[k].e = e
Events == 1..Len(stream.log)
\* The "done" events, in order: the k-th is that of frame k.
Dones == SelectSeq(stream.log, LAMBDA ev : ev.e = "done")
\* The body bytes of frame n whose send returned.
RECURSIVE BytesSent(_, _)
BytesSent(log, n) ==
    IF log = <<>> THEN 0
    ELSE BytesSent(Tail(log), n)
           + (IF Head(log).e = "send" /\ Head(log).frame = n
              THEN Len(StreamBody(Head(log).pkt)) ELSE 0)

\* C15: the first packet sent for a frame carries chunk index 0, every
\* further packet of the frame the index of the packet before it plus 1, and
\* the length field of every packet is the length of its body, at most 1024.
C15_ChunkIndices ==
    \A k \in Events : IsEv(k, "send") =>
        LET pkt == stream.log[k].pkt
        IN /\ LengthField(pkt) = Len(StreamBody(pkt))
           /\ Len(StreamBody(pkt)) <= 1024
           /\ k > 1
           /\ IsEv(k - 1, "read") \/ IsEv(k - 1, "send")
           /\ stream.log[k - 1].frame = stream.log[k].frame
           /\ IsEv(k - 1, "read") => ChunkIndex(pkt) = 0
           /\ IsEv(k - 1, "send") =>
                 ChunkIndex(pkt) = ChunkIndex(stream.log[k - 1].pkt) + 1

\* The second frame's second packet was sent.
C15_Witness ==
    \E k \in Events :
        /\ IsEv(k, "send") /\ stream.log[k].frame = 2
        /\ ChunkIndex(stream.log[k].pkt) = 1

\* C16: before every send on the streaming socket but the first, at least
\* 30 ms of sleep have elapsed since the send before it.
C16_StreamPacing ==
    \A k \in Events : IsEv(k, "send") =>
        stream.log[k].first \/ stream.log[k].gap >= 30

\* C17: when the connect to the fan failed at the start of run, run does
\* not enter its frame loop: it is not running and no frame is read.
C17_ConnectFailureFatal ==
    (stream.pc \notin {"init", "returned"}
        /\ (stream.socket.isNone \/ ~stream.socket.connected)) =>
        /\ stream.pc = "closed" /\ ~stream.running
        /\ stream.reads = 0 /\ stream.log = <<>>

\* C18: no frame is read once the sends of the three frames before it have
\* all failed.
C18_StopAfterThreeFailures ==
    \A k \in Events :
        (IsEv(k, "read") /\ stream.log[k].frame >= 4) =>
            LET n == stream.log[k].frame
            IN ~(\A m \in (n - 3)..(n - 1) : Dones[m].ok = "False")

\* C19: a run that entered its loop and has ended is closed: running is
\* false, the camera is released, the socket (if any) is closed, and the
\* work on every frame that was read has ended.
C19_ClosedAfterFrame ==
    stream.pc = "closed" =>
        /\ ~stream.running
        /\ stream.cap = "released"
        /\ stream.socket.isNone \/ stream.socket_closed
        /\ \A k \in Events : IsEv(k, "read") =>
             \E j \in Events :
                 j > k /\ IsEv(j, "done")
                     /\ stream.log[j].frame = stream.log[k].frame

\* C20: at most one frame that was read is not done; a frame is read only
\* right after the work on the frame before it has ended, and when that
\* frame's send returned True all its bytes were sent.
C20_OneFrameInFlight ==
    /\ stream.reads - Len(Dones) \in {0, 1}
    /\ \A k \in Events : (IsEv(k, "read") /\ k > 1) =>
          /\ IsEv(k - 1, "done")
          /\ stream.log[k - 1].frame = stream.log[k].frame - 1
          /\ stream.log[k - 1].ok = "True" =>
                BytesSent(stream.log, stream.log[k - 1].frame)
                    = MaxRays * NUM_LEDS

\* A frame was read after a frame that was sent, and one after a frame
\* whose send failed.
C20_Witness ==
    /\ \E k \in Events : IsEv(k, "read") /\ k > 1
                            /\ stream.log[k - 1].ok = "True"
    /\ \E k \in Events : IsEv(k, "read") /\ k > 1
                            /\ stream.log[k - 1].ok = "False"

\* ----------------------------------------------------------- the encoder
SquareFrames == \A i \in 1..Len(enc.frames) : enc.frames[i].h = enc.frames[i].w
\* ceil(bits / 8) for the (n_leds / 2) * 3 bits of one ray
PackedRayLen(n_leds) == ((n_leds \div 2) * 3 + 7) \div 8
\* The bits set in a byte, and in a byte string
RECURSIVE BitsOfByte(_)
BitsOfByte(b) == IF b = 0 THEN 0 ELSE (b % 2) + BitsOfByte(b \div 2)
RECURSIVE BitSum(_)
BitSum(bytes) ==
    IF bytes = <<>> THEN 0 ELSE BitsOfByte(Head(bytes)) + BitSum(Tail(bytes))
\* The bytes of the rays first..last (counted from 0) of an encoded frame
RaysOf(out, n_rays, first, last) ==
    LET per == Len(out) \div n_rays
    IN SubSeq(out, first * per + 1, (last + 1) * per)

\* C21: the bytes encode_frame returns for a square image are n_rays times
\* the bytes_per_ray the constructor computed.
C21_FrameLength ==
    (enc.fn = "encode_frame" /\ ~enc.result.raised) =>
        Len(enc.result.out) = enc.n_rays * enc.bytes_per_ray

\* C22: for square frames encode_animation returns the 0x1000-byte header
\* and then, for each frame in order, the bytes of its encode_frame and
\* 1288 zero bytes; an encoded frame has 113400 bytes at the defaults.
C22_AnimationLayout ==
    /\ N_RAYS * PackedRayLen(N_LEDS) = 113400
    /\ Len(pack_bits(Zeros((N_LEDS \div 2) * 3))) = PackedRayLen(N_LEDS)
    /\ (enc.fn = "encode_animation" /\ SquareFrames) =>
          LET out == enc.result.out
              L == enc.n_rays * PackedRayLen(enc.n_leds)
              N == Len(enc.frames)
              at(i) == 4096 + (i - 1) * (L + 1288)
          IN /\ ~enc.result.raised
             /\ Len(out) = 4096 + N * (L + 1288)
             /\ \A i \in 1..N :
                  /\ SubSeq(out, at(i) + 1, at(i) + L)
                       = encode_frame(enc.n_rays, enc.n_leds,
                                      enc.frames[i]).out
                  /\ SubSeq(out, at(i) + L + 1, at(i) + L + 1288)
                       = Zeros(1288)

\* An animation of two different square frames was encoded.
C22_Witness ==
    /\ enc.fn = "encode_animation" /\ ~enc.result.raised
    /\ Len(enc.frames) = 2 /\ enc.frames[1] # enc.frames[2]

\* C23: the container of a single frame begins with 00 00 00 01 18, that of
\* several frames with 00 00 00 3C 18.
C23_HeaderKind ==
    (enc.fn = "encode_animation" /\ ~enc.result.raised) =>
        Take(enc.result.out, 5) =
            IF Len(enc.frames) = 1 THEN <<0, 0, 0, 1, 24>>
            ELSE <<0, 0, 0, 60, 24>>

\* C24: for a square image white in its top half and black below, encoded
\* with four rays, more bits are set in the rays [n_rays / 2, n_rays) than
\* in the rays [0, n_rays / 2).
C24_AngleDirection ==
    (enc.fn = "encode_frame" /\ enc.n_rays = 4
        /\ enc.frames[1] \in {TopWhite(2), TopWhite(4)}) =>
        BitSum(RaysOf(enc.result.out, 4, 2, 3))
            > BitSum(RaysOf(enc.result.out, 4, 0, 1))

\* C25: the dither level of every channel value is in 0..14, that of 16 is
\* 0 and that of 240 is 14, and _ordered_dither returns a bit.
C25_DitherLevel ==
    enc.fn = "_ordered_dither" =>
        /\ enc.level \in 0..14
        /\ enc.value = 16 => enc.level = 0
        /\ enc.value = 240 => enc.level = 14
        /\ enc.result.out[1] \in {0, 1}

\* _ordered_dither was called with the value 240.
C25_Witness ==
    enc.fn = "_ordered_dither" /\ enc.value = 240 /\ enc.level = 14

\* C26: _pack_bits returns ceil(n / 8) bytes; bit j of the argument is bit
\* 7 - (j mod 8) of byte j div 8, the other bits of the last byte are 0;
\* 1, 0, 0 repeated packs to 0x92, 0x49, 0x24 repeated.
C26_PackBits ==
    enc.fn = "_pack_bits" =>
        LET out == enc.result.out
            n == Len(enc.bits)
            \* bit 7 - p of byte k (both counted from 0)
            stored(k, p) == (out[k + 1] \div (2 ^ (7 - p))) % 2
        IN /\ Len(out) = (n + 7) \div 8
           /\ \A j \in 0..(n - 1) :
                stored(j \div 8, j % 8) = enc.bits[j + 1]
           /\ \A j \in n..(8 * Len(out) - 1) : stored(j \div 8, j % 8) = 0
           /\ enc.bits = Pattern100(24) => out = <<146, 73, 36>>

\* Nine bits, the last one set, were packed into two bytes.
C26_Witness ==
    enc.fn = "_pack_bits" /\ Len(enc.bits) = 9 /\ enc.bits[9] = 1
        /\ Len(enc.result.out) = 2

\* C27: encode_frame on an image that is not square, and encode_animation
\* on a list with such an image, raise and return no bytes.
C27_NonSquareRejected ==
    (enc.fn \in {"encode_frame", "encode_animation"} /\ ~SquareFrames) =>
        enc.result.raised /\ enc.result.out = <<>>

\* encode_animation raised on a square frame followed by one that is not.
C27_Witness ==
    /\ enc.fn = "encode_animation" /\ Len(enc.frames) = 2
    /\ enc.frames[1].h = enc.frames[1].w /\ enc.frames[2].h # enc.frames[2].w
    /\ enc.result.raised

\* C28: after a connect that failed the client holds no socket: a socket
\* stored in FanProtocol or TCPFanClient is one whose connect succeeded.
C28_NoSocketAfterFailedConnect ==
    /\ fp.isNone \/ fp.connected
    /\ tc.isNone \/ tc.connected

\* C29: in the step in which the upload of an /upload request finishes,
\* the registry entry of its device gets status playing and the uploaded
\* filename as current_file if upload_file returned True, and status error
\* otherwise.
C29_RegistryAfterUpload ==
    [][\A r \in 1..MaxRequests :
         (reqs[r].kind = "upload" /\ reqs[r].pc # "done"
             /\ reqs'[r].pc = "done") =>
            LET d == devices'[reqs[r].device_ip]
            IN IF reqs'[r].frame.result = "True"
               THEN /\ objs'[d].status = "playing"
                    /\ objs'[d].current_file = reqs[r].filename
               ELSE objs'[d].status = "error"]_vars

\* ------------------------------------------------------------- sessions
\* The sessions of device d that are committed and not ended
ActiveSessions(d) ==
    {i \in 1..Len(orch.sessions) :
        /\ orch.sessions[i].committed /\ ~orch.sessions[i].ended
        /\ orch.sessions[i].device_id = d}

\* C30: a device never has two active sessions, and whenever no request is
\* in progress it is busy exactly if it has an active session.
C30_OneActiveSession ==
    \A d \in DOMAIN orch.status :
        /\ Cardinality(ActiveSessions(d)) <= 1
        /\ (\A r \in 1..MaxOrchRequests : orch.reqs[r].pc = "done") =>
              (orch.status[d] = "busy" <=> ActiveSessions(d) # {})

====
